---------------------------- MODULE Spec2Model ----------------------------
(***************************************************************************)
(* State-machine model of the log-to-dataset pipeline of analysis.py:      *)
(* parse_log_lines, find_ground_truth, compute_inference_duration,         *)
(* format_duration_ms, process_file and main.                              *)
(*                                                                         *)
(* Text is modelled as sequences of one-character strings, so that         *)
(* parsing, trimming, case folding and formatting are computed rather than *)
(* assumed.  Python's None is the empty tuple <<>> and a present value v   *)
(* is the one-element tuple <<v>>.                                         *)
(***************************************************************************)
EXTENDS Integers, Sequences, FiniteSets, TLC

VARIABLES
    pc,             \* position of the operation being run
    wf,             \* the parts a well-formed line was built from
    lines,          \* raw lines of the file being processed
    events,         \* list of event dicts
    truth,          \* result of find_ground_truth
    rows,           \* rows returned by process_file
    fs,             \* directory tree under root
    visit,          \* index of the (scenario, candidate dir) pair main is at
    f,              \* main's loop variable f (unbound until first assigned)
    rows_to_write,  \* rows accumulated by main
    id_counter,     \* main's id counter
    calls,          \* arguments process_file was invoked with, in order
    order,          \* index of the frame after sort_values
    df,             \* the frame that is written
    target          \* where the frame was written

vars == <<pc, wf, lines, events, truth, rows, fs, visit, f, rows_to_write,
          id_counter, calls, order, df, target>>

None == <<>>
Some(v) == <<v>>
IsSome(o) == o /= <<>>
Val(o) == o[1]

---------------------------------------------------------------------------
(* Characters and strings                                                  *)

UpperChars == <<"A","B","C","D","E","F","G","H","I","J","K","L","M",
                "N","O","P","Q","R","S","T","U","V","W","X","Y","Z">>
LowerChars == <<"a","b","c","d","e","f","g","h","i","j","k","l","m",
                "n","o","p","q","r","s","t","u","v","w","x","y","z">>
DigitChars == <<"0","1","2","3","4","5","6","7","8","9">>

IsDigit(c) == \E k \in 1..10 : DigitChars[k] = c
DigitVal(c) == (CHOOSE k \in 1..10 : DigitChars[k] = c) - 1

\* str.lower() of one character
LowerChar(c) ==
    IF \E k \in 1..26 : UpperChars[k] = c
    THEN LowerChars[CHOOSE k \in 1..26 : UpperChars[k] = c]
    ELSE c

\* str.lower()
Lower(s) == [k \in 1..Len(s) |-> LowerChar(s[k])]

RECURSIVE LStripOf(_, _)
\* s with its leading characters satisfying the set cs removed
LStripOf(s, cs) ==
    IF s /= <<>> /\ Head(s) \in cs THEN LStripOf(Tail(s), cs) ELSE s

RECURSIVE RStripOf(_, _)
RStripOf(s, cs) ==
    IF s /= <<>> /\ s[Len(s)] \in cs
    THEN RStripOf(SubSeq(s, 1, Len(s) - 1), cs)
    ELSE s

\* str.strip() and str.strip(chars)
StripOf(s, cs) == RStripOf(LStripOf(s, cs), cs)
Strip(s) == StripOf(s, {" "})

\* smallest index of character c in s, 0 when there is none
IndexOf(s, c) ==
    IF \E k \in 1..Len(s) : s[k] = c
    THEN CHOOSE k \in 1..Len(s) : s[k] = c /\ \A j \in 1..(k - 1) : s[j] /= c
    ELSE 0

\* the text of s after position k
After(s, k) == SubSeq(s, k + 1, Len(s))

\* "sub in s"
Contains(s, sub) ==
    \E k \in 0..(Len(s) - Len(sub)) : SubSeq(s, k + 1, k + Len(sub)) = sub

\* s.startswith(p)
StartsWith(s, p) == Len(s) >= Len(p) /\ SubSeq(s, 1, Len(p)) = p

RECURSIVE Digits(_)
\* decimal digits of a natural number
Digits(n) ==
    IF n < 10 THEN <<DigitChars[n + 1]>>
    ELSE Append(Digits(n \div 10), DigitChars[(n % 10) + 1])

RECURSIVE ZeroPad(_, _)
ZeroPad(s, w) == IF Len(s) >= w THEN s ELSE ZeroPad(<<"0">> \o s, w)

\* format(n, "0<w>d"): the sign counts towards the width
FormatD(n, w) ==
    IF n < 0 THEN <<"-">> \o ZeroPad(Digits(-n), w - 1)
    ELSE ZeroPad(Digits(n), w)

RECURSIVE NumberOf(_)
\* value of a sequence of decimal digits
NumberOf(s) ==
    IF s = <<>> THEN 0
    ELSE 10 * NumberOf(SubSeq(s, 1, Len(s) - 1)) + DigitVal(s[Len(s)])

AllDigits(s) == \A k \in 1..Len(s) : IsDigit(s[k])


---------------------------------------------------------------------------
(* Timestamps.  An instant is [s, us, tz]: whole seconds counted from the  *)
(* start of 2025-12-00, microseconds 0..999999, and whether the value      *)
(* carries a UTC offset.  The textual form understood here is the subset   *)
(* 2025-12-DDTHH:MM:SS[.fff|.ffffff][+00:00] of ISO 8601.                  *)

DatePrefix == <<"2", "0", "2", "5", "-", "1", "2", "-">>
UtcSuffix == <<"+", "0", "0", ":", "0", "0">>
MicrosPerSecond == 1000 * 1000

\* datetime.fromisoformat(ts_s) inside try/except: None when it raises
FromIso(tok) ==
    LET n == Len(tok)
        aware == n >= 25 /\ SubSeq(tok, n - 5, n) = UtcSuffix
        core == IF aware THEN SubSeq(tok, 1, n - 6) ELSE tok
        frac == After(core, 20)
        two(k) == SubSeq(core, k, k + 1)
        shape ==
            /\ Len(core) \in {19, 23, 26}
            /\ StartsWith(core, DatePrefix)
            /\ core[11] = "T" /\ core[14] = ":" /\ core[17] = ":"
            /\ \A k \in {9, 12, 15, 18} : AllDigits(two(k))
            /\ Len(core) > 19 => core[20] = "." /\ AllDigits(frac)
    IN  IF ~shape THEN None
        ELSE LET dd == NumberOf(two(9))
                 hh == NumberOf(two(12))
                 mm == NumberOf(two(15))
                 ss == NumberOf(two(18))
                 us == IF Len(core) = 19 THEN 0
                       ELSE IF Len(frac) = 3 THEN NumberOf(frac) * 1000
                       ELSE NumberOf(frac)
             IN  IF dd \in 1..31 /\ hh < 24 /\ mm < 60 /\ ss < 60
                 THEN Some([s |-> ((dd * 24 + hh) * 60 + mm) * 60 + ss,
                            us |-> us, tz |-> aware])
                 ELSE None

\* datetime.isoformat(): the fraction is written only when it is not zero
IsoFormat(ts) ==
    LET dd == ts.s \div 86400
        hh == (ts.s \div 3600) % 24
        mm == (ts.s \div 60) % 60
        ss == ts.s % 60
    IN  DatePrefix \o FormatD(dd, 2) \o <<"T">> \o FormatD(hh, 2) \o <<":">>
            \o FormatD(mm, 2) \o <<":">> \o FormatD(ss, 2)
            \o (IF ts.us = 0 THEN <<>> ELSE <<".">> \o FormatD(ts.us, 6))
            \o (IF ts.tz THEN UtcSuffix ELSE <<>>)

\* ts_cur - ts_prev: a timedelta normalised to 0 <= us < 10^6, or None when
\* the subtraction raises (an offset-aware and a naive value)
TimeSub(a, b) ==
    IF a.tz /= b.tz THEN None
    ELSE LET ds == a.s - b.s
             du == a.us - b.us
         IN  IF du < 0 THEN Some([s |-> ds - 1, us |-> du + MicrosPerSecond])
             ELSE Some([s |-> ds, us |-> du])

---------------------------------------------------------------------------
(* int(td.total_seconds() * 1000) in IEEE-754 double precision.            *)
(* total_seconds() is the correctly rounded quotient of the microsecond    *)
(* count by 10^6, the product by 1000 is rounded again, and int()          *)
(* truncates.  Significands are sequences of bits, most significant first. *)

MantissaBits == 53

RECURSIVE IntBits(_)
IntBits(n) == IF n = 0 THEN <<>> ELSE Append(IntBits(n \div 2), n % 2)

RECURSIVE BitsToInt(_)
BitsToInt(b) ==
    IF b = <<>> THEN 0 ELSE 2 * BitsToInt(SubSeq(b, 1, Len(b) - 1)) + b[Len(b)]

\* the ten bits of a number below 1024
TenBits(q) == [k \in 1..10 |-> (q \div (2 ^ (10 - k))) % 2]

Zeros(n) == [k \in 1..n |-> 0]

StripZeros(b) ==
    IF \A k \in 1..Len(b) : b[k] = 0 THEN <<>>
    ELSE After(b, (CHOOSE k \in 1..Len(b) :
                      b[k] = 1 /\ \A j \in 1..(k - 1) : b[j] = 0) - 1)

\* b + 1
IncBits(b) ==
    IF \A k \in 1..Len(b) : b[k] = 1 THEN <<1>> \o Zeros(Len(b))
    ELSE LET z == CHOOSE k \in 1..Len(b) :
                      b[k] = 0 /\ \A j \in (k + 1)..Len(b) : b[j] = 1
         IN  SubSeq(b, 1, z - 1) \o <<1>> \o Zeros(Len(b) - z)

\* round to nearest, ties to even
RoundNearestEven(keep, guard, sticky) ==
    IF guard = 1 /\ (sticky \/ keep[Len(keep)] = 1) THEN IncBits(keep) ELSE keep

RECURSIVE FractionBits(_, _)
\* long division of r / 10^6, ten bits a step for n steps: the bits of the
\* fraction followed, as last element, by the remainder left
FractionBits(r, n) ==
    IF n = 0 THEN <<r>>
    ELSE TenBits((r * 1024) \div MicrosPerSecond)
            \o FractionBits((r * 1024) % MicrosPerSecond, n - 1)

\* total_seconds() of a non-negative, non-zero timedelta, (s * 10^6 + us) / 10^6
\* correctly rounded: [m, fb], the value m / 2^fb
TotalSeconds(s, us) ==
    LET fr == FractionBits(us, 8)
        whole == IntBits(s)
        all == whole \o SubSeq(fr, 1, 80)
        lead == Len(all) - Len(StripZeros(all))
        last == lead + MantissaBits
    IN  [m |-> RoundNearestEven(SubSeq(all, lead + 1, last), all[last + 1],
                                fr[81] /= 0 \/ \E k \in (last + 2)..Len(all) : all[k] = 1),
         fb |-> last - Len(whole)]

RECURSIVE LimbsTimes(_, _, _)
\* limbs (base 1024, least significant first) times 1000, as bits
LimbsTimes(limbs, k, carry) ==
    IF k > Len(limbs) THEN IntBits(carry)
    ELSE LET t == limbs[k] * 1000 + carry
         IN  LimbsTimes(limbs, k + 1, t \div 1024) \o TenBits(t % 1024)

\* exact product of a significand by 1000
TimesThousand(bits) ==
    LET padded == Zeros(60 - Len(bits)) \o bits
        limbs == [k \in 1..6 |-> BitsToInt(SubSeq(padded, 61 - 10 * k, 70 - 10 * k))]
    IN  StripZeros(LimbsTimes(limbs, 1, 0))

\* int(x * 1000) for x = total_seconds() of a non-negative timedelta
FloatMillis(s, us) ==
    IF s = 0 /\ us = 0 THEN 0
    ELSE LET x == TotalSeconds(s, us)
             p == TimesThousand(x.m)
             drop == IF Len(p) > MantissaBits THEN Len(p) - MantissaBits ELSE 0
             y == IF drop = 0 THEN p
                  ELSE RoundNearestEven(SubSeq(p, 1, MantissaBits),
                                        p[MantissaBits + 1],
                                        \E k \in (MantissaBits + 2)..Len(p) : p[k] = 1)
             intbits == Len(y) + drop - x.fb
         IN  IF intbits > 0 THEN BitsToInt(SubSeq(y, 1, intbits)) ELSE 0

\* int((ts_cur - ts_prev).total_seconds() * 1000): the sign is carried by
\* the float, and int() truncates towards zero
TotalMillis(td) ==
    IF td.s >= 0 THEN FloatMillis(td.s, td.us)
    ELSE IF td.us = 0 THEN - FloatMillis(- td.s, 0)
    ELSE - FloatMillis(- td.s - 1, MicrosPerSecond - td.us)

\* format_duration_ms for an integer argument
format_duration_ms(ms) ==
    LET seconds == ms \div 1000
        milli == ms % 1000
        mins0 == seconds \div 60
        sec == seconds % 60
        hours == mins0 \div 60
        mins == mins0 % 60
    IN  FormatD(hours, 2) \o <<":">> \o FormatD(mins, 2) \o <<":">>
            \o FormatD(sec, 2) \o <<".">> \o FormatD(milli, 3)

---------------------------------------------------------------------------
(* Line parsing                                                            *)

\* \s*(?P<g>X+) where the text up to the delimiter is s: the greedy \s*
\* gives back one character when s is all whitespace
AfterSpaces(s) ==
    IF LStripOf(s, {" "}) = <<>> THEN <<s[Len(s)]>> ELSE LStripOf(s, {" "})

\* LINE_RE.match(ln): None, or the groups ts, component, event, details
\* (details is None when the optional group did not take part)
LINE_RE(ln) ==
    LET rb == IndexOf(ln, "]")
        afterTs == After(ln, rb)
        colon == IndexOf(afterTs, ":")
        afterColon == After(afterTs, colon)
        hyphen == IndexOf(afterColon, "-")
    IN  IF ln = <<>> \/ ln[1] /= "[" \/ rb <= 2 THEN None
        ELSE IF colon <= 1 THEN None
        ELSE IF hyphen = 0
        THEN IF afterColon = <<>> THEN None
             ELSE Some([ts |-> SubSeq(ln, 2, rb - 1),
                        component |-> AfterSpaces(SubSeq(afterTs, 1, colon - 1)),
                        event |-> AfterSpaces(afterColon),
                        details |-> None])
        ELSE IF hyphen = 1 THEN None
        ELSE Some([ts |-> SubSeq(ln, 2, rb - 1),
                   component |-> AfterSpaces(SubSeq(afterTs, 1, colon - 1)),
                   event |-> AfterSpaces(SubSeq(afterColon, 1, hyphen - 1)),
                   details |-> Some(LStripOf(After(afterColon, hyphen), {" "}))])

\* the event dict built for one stripped, non-empty line; duration_ms and
\* duration_hms stand for ev.get(...), None while the key is not set
EventOf(ln) ==
    LET m == LINE_RE(ln)
    IN  IF m = None
        THEN [ts |-> None, component |-> None, event |-> None, details |-> ln,
              raw |-> ln, duration_ms |-> None, duration_hms |-> None]
        ELSE LET g == Val(m)
                 details_group == IF g.details = None THEN <<>> ELSE Val(g.details)
             IN  [ts |-> FromIso(g.ts),
                  component |-> Some(Strip(g.component)),
                  event |-> Some(Strip(g.event)),
                  details |-> Strip(details_group),
                  raw |-> ln, duration_ms |-> None, duration_hms |-> None]

RECURSIVE parse_log_lines(_)
parse_log_lines(lns) ==
    IF lns = <<>> THEN <<>>
    ELSE IF Strip(Head(lns)) = <<>> THEN parse_log_lines(Tail(lns))
    ELSE <<EventOf(Strip(Head(lns)))>> \o parse_log_lines(Tail(lns))

---------------------------------------------------------------------------
(* Ground truth                                                            *)

GroundTruthA == <<"g", "r", "o", "u", "n", "d", " ", "t", "r", "u", "t", "h">>
GroundTruthB == <<"o", "b", "j", "e", "t", "o", " ", "v", "e", "r", "d", "a", "d">>
GroundTruthC == <<"o", "b", "j", "e", "t", "o", "_", "v", "e", "r", "d", "a", "d">>

\* ln.split()[-1] of a line that holds a non-blank character
LastToken(ln) ==
    LET r == RStripOf(ln, {" "})
        sp == IF \E k \in 1..Len(r) : r[k] = " "
              THEN CHOOSE k \in 1..Len(r) :
                       r[k] = " " /\ \A j \in (k + 1)..Len(r) : r[j] /= " "
              ELSE 0
    IN  After(r, sp)

RECURSIVE GroundTruthOfLastMatch(_)
\* find_ground_truth as it would be if a later matching line won
GroundTruthOfLastMatch(lns) ==
    IF lns = <<>> THEN None
    ELSE LET ln == lns[Len(lns)]
         IN  IF \/ Contains(Lower(ln), GroundTruthA)
                \/ Contains(Lower(ln), GroundTruthB)
                \/ Contains(Lower(ln), GroundTruthC)
             THEN Some(StripOf(LastToken(ln), {"\""}))
             ELSE GroundTruthOfLastMatch(SubSeq(lns, 1, Len(lns) - 1))

RECURSIVE find_ground_truth(_)
find_ground_truth(lns) ==
    IF lns = <<>> THEN None
    ELSE LET ln == Head(lns)
         IN  IF /\ \/ Contains(Lower(ln), GroundTruthA)
                    \/ Contains(Lower(ln), GroundTruthB)
                    \/ Contains(Lower(ln), GroundTruthC)
                /\ Strip(ln) /= <<>>
             THEN Some(StripOf(LastToken(ln), {"\""}))
             ELSE find_ground_truth(Tail(lns))

---------------------------------------------------------------------------
(* Durations                                                               *)

\* the duration fields of event k of the list
DurationOf(evs, k) ==
    IF k = 1
    THEN IF IsSome(evs[1].ts)
         THEN [ms |-> Some(0), hms |-> Some(format_duration_ms(0))]
         ELSE [ms |-> None, hms |-> None]
    ELSE LET ts_prev == evs[k - 1].ts
             ts_cur == evs[k].ts
         IN  IF IsSome(ts_prev) /\ IsSome(ts_cur)
             THEN LET td == TimeSub(Val(ts_cur), Val(ts_prev))
                  IN  IF td = None THEN [ms |-> None, hms |-> None]
                      ELSE [ms |-> Some(TotalMillis(Val(td))),
                            hms |-> Some(format_duration_ms(TotalMillis(Val(td))))]
             ELSE [ms |-> None, hms |-> None]

\* the list as compute_inference_duration leaves it
compute_inference_duration(evs) ==
    [k \in 1..Len(evs) |->
        [evs[k] EXCEPT !.duration_ms = DurationOf(evs, k).ms,
                       !.duration_hms = DurationOf(evs, k).hms]]

---------------------------------------------------------------------------
(* Field extraction and row synthesis                                      *)

WithConfidence == <<"w", "i", "t", "h", " ", "c", "o", "n", "f", "i", "d", "e", "n", "c", "e">>
ErrorWord == <<"e", "r", "r", "o", "r">>
NoResult == <<"n", "o", "_", "r", "e", "s", "u", "l", "t">>
NoResultNote == <<"n", "o", " ", "r", "e", "s", "u", "l", "t", " ", "l", "i", "n", "e", "s", " ", "f", "o", "u", "n", "d">>
ParseError == <<"p", "a", "r", "s", "e", "_", "e", "r", "r", "o", "r">>
ParseErrorNote == <<"p", "a", "r", "s", "e", " ", "e", "r", "r", "o", "r", ":", " ">>

\* the digits at the start of s
DigitRun(s) ==
    IF \E k \in 1..Len(s) : ~IsDigit(s[k])
    THEN SubSeq(s, 1, (CHOOSE k \in 1..Len(s) :
                           ~IsDigit(s[k]) /\ \A j \in 1..(k - 1) : IsDigit(s[j])) - 1)
    ELSE s

\* [0-9]*\.?[0-9]+ matched at the start of s: [whole, frac], or None
NumberAt(s) ==
    LET whole == DigitRun(s)
        rest == After(s, Len(whole))
        frac == IF rest /= <<>> /\ rest[1] = "." THEN DigitRun(Tail(rest)) ELSE <<>>
    IN  IF frac /= <<>> THEN Some([whole |-> whole, frac |-> frac])
        ELSE IF whole /= <<>> THEN Some([whole |-> whole, frac |-> <<>>])
        ELSE None

\* whether "with confidence\s+<number>" matches at position k of d
ConfAt(d, k) ==
    /\ k + Len(WithConfidence) <= Len(d)
    /\ SubSeq(Lower(d), k, k + Len(WithConfidence) - 1) = WithConfidence
    /\ d[k + Len(WithConfidence)] = " "
    /\ NumberAt(LStripOf(After(d, k + Len(WithConfidence) - 1), {" "})) /= None

\* CONF_RE.search(details): the captured number, or None
CONF_RE(d) ==
    IF \E k \in 1..Len(d) : ConfAt(d, k)
    THEN LET k == CHOOSE k \in 1..Len(d) :
                      ConfAt(d, k) /\ \A j \in 1..(k - 1) : ~ConfAt(d, j)
         IN  NumberAt(LStripOf(After(d, k + Len(WithConfidence) - 1), {" "}))
    ELSE None

\* f"{float(conf):.3f}"; a fourth digit that is an exact decimal tie is
\* rounded to even here
FormatConf(n) ==
    LET f3 == SubSeq(n.frac \o <<"0", "0", "0">>, 1, 3)
        more == After(n.frac, 3)
        half == <<"5">> \o [k \in 1..(Len(more) - 1) |-> "0"]
        base == NumberOf(n.whole) * 1000 + NumberOf(f3)
        up == IF more = <<>> THEN 0
              ELSE IF more = half THEN base % 2
              ELSE IF DigitVal(more[1]) >= 5 THEN 1 ELSE 0
    IN  Digits((base + up) \div 1000) \o <<".">> \o FormatD((base + up) % 1000, 3)

\* position of the first "with confidence" in d, ignoring case
PhraseAt(d) ==
    CHOOSE k \in 1..Len(d) :
        /\ StartsWith(After(Lower(d), k - 1), WithConfidence)
        /\ \A j \in 1..(k - 1) : ~StartsWith(After(Lower(d), j - 1), WithConfidence)

\* the predicted label
LabelOf(d) ==
    IF Contains(Lower(d), WithConfidence)
    THEN Strip(Strip(SubSeq(d, 1, PhraseAt(d) - 1)))
    ELSE Strip(d)

\* truthiness of Optional[str]
Truthy(o) == IsSome(o) /\ Val(o) /= <<>>

\* truth or ""
OrEmpty(o) == IF Truthy(o) THEN Val(o) ELSE <<>>

\* the acierto expression as it would be without the two lower() calls
AciertoCaseSensitive(tr, label) ==
    IF Truthy(tr)
    THEN IF label /= <<>> /\ Val(tr) = label THEN Some(1) ELSE Some(0)
    ELSE None

\* the acierto expression: 1, 0 or "" (None stands for the empty string)
Acierto(tr, label) ==
    IF Truthy(tr)
    THEN IF label /= <<>> /\ Lower(Val(tr)) = Lower(label) THEN Some(1) ELSE Some(0)
    ELSE None

\* the row of one event that has an event name
RowOf(ev, escenario, modo, tr) ==
    LET conf_m == CONF_RE(ev.details)
    IN  [timestamp |-> IF IsSome(ev.ts) THEN IsoFormat(Val(ev.ts)) ELSE <<>>,
         modo |-> modo,
         tipo_de_evento |-> Strip(Val(ev.event)),
         escenario |-> escenario,
         distancia_m |-> "",
         iluminacion |-> "LED",
         objeto_verdad |-> OrEmpty(tr),
         objeto_predicho |-> LabelOf(ev.details),
         confianza |-> IF conf_m /= None THEN FormatConf(Val(conf_m)) ELSE <<>>,
         t_total_ms |-> IF ev.duration_hms /= None THEN Val(ev.duration_hms) ELSE <<>>,
         acierto |-> Acierto(tr, LabelOf(ev.details)),
         notas |-> IF Contains(Lower(ev.details), ErrorWord) THEN ev.details ELSE <<>>]

\* "if not ev.get('event'): continue"
HasEventName(ev) == Truthy(ev.event)

RECURSIVE EventRows(_, _, _, _)
\* the rows of the per-event loop
EventRows(evs, escenario, modo, tr) ==
    IF evs = <<>> THEN <<>>
    ELSE (IF HasEventName(Head(evs)) THEN <<RowOf(Head(evs), escenario, modo, tr)>>
          ELSE <<>>) \o EventRows(Tail(evs), escenario, modo, tr)

\* the backward scan for a timestamp as it would be without reversed()
FirstTs(evs) ==
    IF \E k \in 1..Len(evs) : IsSome(evs[k].ts)
    THEN evs[CHOOSE k \in 1..Len(evs) :
                 IsSome(evs[k].ts) /\ \A j \in 1..(k - 1) : ~IsSome(evs[j].ts)].ts
    ELSE None

\* the last ts of the list that is set, None when there is none
LastTs(evs) ==
    IF \E k \in 1..Len(evs) : IsSome(evs[k].ts)
    THEN evs[CHOOSE k \in 1..Len(evs) :
                 IsSome(evs[k].ts) /\ \A j \in (k + 1)..Len(evs) : ~IsSome(evs[j].ts)].ts
    ELSE None

\* the last truthy duration_hms of the list, "" when there is none
LastDuration(evs) ==
    IF \E k \in 1..Len(evs) : Truthy(evs[k].duration_hms)
    THEN Val(evs[CHOOSE k \in 1..Len(evs) :
                     /\ Truthy(evs[k].duration_hms)
                     /\ \A j \in (k + 1)..Len(evs) : ~Truthy(evs[j].duration_hms)
                ].duration_hms)
    ELSE <<>>

\* the summary row appended when the loop produced nothing
FallbackRow(evs, escenario, modo, tr) ==
    [timestamp |-> IF IsSome(LastTs(evs)) THEN IsoFormat(Val(LastTs(evs))) ELSE <<>>,
     modo |-> modo,
     tipo_de_evento |-> NoResult,
     escenario |-> escenario,
     distancia_m |-> "",
     iluminacion |-> "LED",
     objeto_verdad |-> OrEmpty(tr),
     objeto_predicho |-> <<>>,
     confianza |-> <<>>,
     t_total_ms |-> LastDuration(evs),
     acierto |-> None,
     notas |-> NoResultNote]

\* rows of process_file from the annotated events
RowsOf(evs, escenario, modo, tr) ==
    IF EventRows(evs, escenario, modo, tr) = <<>>
    THEN <<FallbackRow(evs, escenario, modo, tr)>>
    ELSE EventRows(evs, escenario, modo, tr)

\* process_file on the lines read from the file
process_file(lns, escenario, modo) ==
    RowsOf(compute_inference_duration(parse_log_lines(lns)), escenario, modo,
           find_ground_truth(lns))

---------------------------------------------------------------------------
(* Inputs                                                                  *)

MaxLines == 3
MaxEvents == 3

\* sequences over S of length at most n
SeqsUpTo(S, n) == UNION {[1..k -> S] : k \in 0..n}

\* the instant 2025-12-dd hh:mm:ss.us
At(dd, hh, mm, ss, us, tz) ==
    [s |-> ((dd * 24 + hh) * 60 + mm) * 60 + ss, us |-> us, tz |-> tz]

\* parts of lines of the documented grammar [<ts>] <comp>: <evt> - <details>
WfTs == 
    {<<"2", "0", "2", "5", "-", "1", "2", "-", "2", "9", "T", "1", "8", ":", "2", "9", ":", "2", "5", ".", "4", "2", "8", "1", "6", "5">>,
     <<"n", "o", "t", " ", "a", " ", "t", "i", "m", "e">>}
WfComps == 
    {<<"S", "C", "E", "N", "E">>,
     <<"E", "S", "P", "3", "2", " ">>,
     <<"T", "T", "S">>}
WfEvts == 
    {<<"r", "e", "s", "u", "l", "t">>,
     <<"r", "u", "n", "n", "i", "n", "g", " ", "i", "n", "f", "e", "r", "e", "n", "c", "e">>,
     <<"p", "r", "e", "-", "p", "r", "o", "c", "e", "s", "s", "i", "n", "g">>,
     <<" ", "d", "e", "t", "e", "c", "t", "S", "c", "e", "n", "e">>,
     <<"t", "e", "x", "t", "-", "t", "o", "-", "s", "p", "e", "e", "c", "h">>}
WfDets == 
    {<<>>,
     <<"f", "i", "n", "i", "s", "h", "e", "d">>,
     <<"r", "e", "s", "i", "z", "i", "n", "g", " ", "-", " ", "t", "o", " ", "5", "2", "0">>,
     <<"u", "n", "k", "n", "o", "w", "n", " ", "w", "i", "t", "h", " ", "c", "o", "n", "f", "i", "d", "e", "n", "c", "e", " ", "0", ".", "0", "0", "0">>,
     <<"e", "r", "r", "o", "r", ":", " ", "n", "o", " ", "k", "n", "o", "w", "n", " ", "o", "b", "j", "e", "c", "t", "/", "c", "l", "a", "s", "s", " ", "w", "a", "s", " ", "f", "o", "u", "n", "d">>}

BuildLine(w) ==
    <<"[">> \o w.ts \o <<"]", " ">> \o w.comp \o <<":", " ">> \o w.evt
        \o <<" ", "-", " ">> \o w.det

\* lines a log file is made of
LineCorpus == 
    {<<"[", "2", "0", "2", "5", "-", "1", "2", "-", "2", "9", "T", "1", "8", ":", "2", "9", ":", "2", "5", ".", "4", "2", "8", "1", "6", "5", "]", " ", "S", "C", "E", "N", "E", ":", " ", "r", "e", "s", "u", "l", "t", " ", "-", " ", "c", "u", "p", " ", "w", "i", "t", "h", " ", "c", "o", "n", "f", "i", "d", "e", "n", "c", "e", " ", "0", ".", "8", "7">>,
     <<"[", "2", "0", "2", "5", "-", "1", "2", "-", "2", "9", "T", "1", "8", ":", "2", "9", ":", "2", "6", ".", "4", "2", "9", "1", "6", "5", "]", " ", "S", "C", "E", "N", "E", ":", " ", "r", "e", "s", "u", "l", "t", " ", "-", " ", "C", "u", "p">>,
     <<"o", "b", "j", "e", "t", "o", "_", "v", "e", "r", "d", "a", "d", ":", " ", "\"", "c", "u", "p", "\"">>,
     <<"[", "2", "0", "2", "5", "-", "1", "2", "-", "2", "9", "T", "1", "8", ":", "2", "9", ":", "2", "4", "]", " ", "S", "C", "E", "N", "E", ":", " ", "-", " ", "s", "t", "a", "r", "t", "i", "n", "g">>,
     <<"[", "b", "a", "d", "]", " ", "T", "T", "S", ":", " ", "c", "l", "a", "s", "s", "F", "r", "e", "q", "u", "e", "n", "c", "y", " ", "-", " ", "e", "r", "r", "o", "r", ":", " ", "n", "o", " ", "c", "l", "a", "s", "s", ",", " ", "G", "R", "O", "U", "N", "D", " ", "T", "R", "U", "T", "H", " ", "D", "o", "g">>,
     <<" ", " ">>,
     <<"[", "2", "0", "2", "5", "-", "1", "2", "-", "2", "9", "T", "1", "8", ":", "2", "9", ":", "2", "5", ".", "4", "2", "8", "1", "6", "5", "]", " ", "E", "S", "P", "3", "2", ":", " ", "c", "a", "p", "t", "u", "r", "e">>,
     <<" ", "G", "r", "o", "u", "n", "d", " ", "t", "r", "u", "t", "h", ":", " ", "\"", "\"">>,
     <<"[", "2", "0", "2", "5", "-", "1", "2", "-", "2", "9", "T", "1", "8", ":", "2", "9", ":", "2", "3", ".", "5", "0", "0", "]", " ", "S", "C", "E", "N", "E", ":", " ", "-", " ", "w", "a", "r", "m", "i", "n", "g">>}

\* timestamps of events, in and out of order, a whole hour apart, less than
\* a millisecond apart, naive and offset-aware
DurTimes ==
    {At(29, 18, 29, 25, 0, FALSE), At(29, 18, 29, 26, 1000, FALSE),
     At(29, 18, 29, 25, 500000, FALSE), At(29, 19, 29, 25, 250, FALSE),
     At(29, 18, 29, 24, 999500, FALSE), At(29, 18, 29, 25, 0, TRUE)}

EventName == <<"c", "a", "p", "t", "u", "r", "e">>
Component == <<"E", "S", "P", "3", "2">>
Degraded == <<"S", "C", "E", "N", "E", " ", "f", "i", "n", "i", "s", "h", "e", "d">>

\* events as parse_log_lines builds them: with a timestamp, with a
\* timestamp that did not parse, and degraded records
DurEvents ==
    {[ts |-> t, component |-> Some(Component), event |-> Some(EventName),
      details |-> <<>>, raw |-> <<>>, duration_ms |-> None, duration_hms |-> None] :
        t \in {Some(x) : x \in DurTimes} \cup {None}}
    \cup {[ts |-> None, component |-> None, event |-> None, details |-> Degraded,
           raw |-> Degraded, duration_ms |-> None, duration_hms |-> None]}

---------------------------------------------------------------------------
(* process_file, step by step                                              *)

MainIdle ==
    /\ fs = <<>> /\ visit = 0 /\ f = None /\ rows_to_write = <<>>
    /\ id_counter = 1 /\ calls = <<>> /\ order = <<>> /\ df = <<>> /\ target = None

mainVars == <<fs, visit, f, rows_to_write, id_counter, calls, order, df, target>>

\* events = parse_log_lines(lines)
Parse ==
    /\ pc = "parse"
    /\ events' = parse_log_lines(lines)
    /\ pc' = "find_truth"
    /\ UNCHANGED <<wf, lines, truth, rows, mainVars>>

\* truth = find_ground_truth(lines)
FindTruth ==
    /\ pc = "find_truth"
    /\ truth' = find_ground_truth(lines)
    /\ pc' = "durations"
    /\ UNCHANGED <<wf, lines, events, rows, mainVars>>

\* compute_inference_duration(events)
Durations ==
    /\ pc = "durations"
    /\ events' = compute_inference_duration(events)
    /\ pc' = "rows"
    /\ UNCHANGED <<wf, lines, truth, rows, mainVars>>

\* a second compute_inference_duration(events) on the same list
DurationsAgain ==
    /\ pc = "rows"
    /\ events' = compute_inference_duration(events)
    /\ pc' = "rerun"
    /\ UNCHANGED <<wf, lines, truth, rows, mainVars>>

\* the per-event loop and the fallback of process_file
BuildRows ==
    /\ pc = "rows"
    /\ rows' = RowsOf(events, 1, "MOBILE", truth)
    /\ pc' = "done"
    /\ UNCHANGED <<wf, lines, events, truth, mainVars>>

\* parse_log_lines on one line of the documented grammar
InitLine ==
    /\ wf \in [ts : WfTs, comp : WfComps, evt : WfEvts, det : WfDets]
    /\ lines = <<BuildLine(wf)>>
    /\ pc = "parse" /\ events = <<>> /\ truth = None /\ rows = <<>>
    /\ MainIdle

NextLine == Parse

SpecLine == InitLine /\ [][NextLine]_vars

\* compute_inference_duration on a list of events
InitDur ==
    /\ events \in SeqsUpTo(DurEvents, MaxEvents)
    /\ pc = "durations" /\ wf = None /\ lines = <<>> /\ truth = None /\ rows = <<>>
    /\ MainIdle

NextDur == Durations \/ DurationsAgain

SpecDur == InitDur /\ [][NextDur]_vars

\* process_file on a file of lines
InitFile ==
    /\ lines \in SeqsUpTo(LineCorpus, MaxLines)
    /\ pc = "parse" /\ wf = None /\ events = <<>> /\ truth = None /\ rows = <<>>
    /\ MainIdle

NextFile == Parse \/ FindTruth \/ Durations \/ BuildRows

SpecFile == InitFile /\ [][NextFile]_vars

---------------------------------------------------------------------------
(* main: the directory walk                                                *)

NScenarios == 4
MaxDirs == 3

ModePrefix == <<"M", "O", "B", "I", "L", "E">>
UnboundMessage == <<"c", "a", "n", "n", "o", "t", " ", "a", "c", "c", "e", "s", "s", " ", "l", "o", "c", "a", "l", " ", "v", "a", "r", "i", "a", "b", "l", "e", " ", "'", "f", "'", " ", "w", "h", "e", "r", "e", " ", "i", "t", " ", "i", "s", " ", "n", "o", "t", " ", "a", "s", "s", "o", "c", "i", "a", "t", "e", "d", " ", "w", "i", "t", "h", " ", "a", " ", "v", "a", "l", "u", "e">>
IsADirectoryMessage == <<"[", "E", "r", "r", "n", "o", " ", "2", "1", "]", " ", "I", "s", " ", "a", " ", "d", "i", "r", "e", "c", "t", "o", "r", "y">>
PermissionMessage == <<"[", "E", "r", "r", "n", "o", " ", "1", "3", "]", " ", "P", "e", "r", "m", "i", "s", "s", "i", "o", "n", " ", "d", "e", "n", "i", "e", "d">>

\* characters of file names in code-point order
CodePoints == <<".", "0", "1", "2", "3", "4", "5", "6", "7", "8", "9",
                "A", "B", "C", "D", "E", "F", "G", "H", "I", "J", "K", "L", "M",
                "N", "O", "P", "Q", "R", "S", "T", "U", "V", "W", "X", "Y", "Z",
                "_", "a", "b", "c", "d", "e", "f", "g", "h", "i", "j", "k", "l", "m",
                "n", "o", "p", "q", "r", "s", "t", "u", "v", "w", "x", "y", "z">>
Ord(c) == CHOOSE k \in 1..Len(CodePoints) : CodePoints[k] = c

\* a < b for names
NameLess(a, b) ==
    \E k \in 1..Len(b) :
        /\ k - 1 <= Len(a)
        /\ SubSeq(a, 1, k - 1) = SubSeq(b, 1, k - 1)
        /\ k > Len(a) \/ Ord(a[k]) < Ord(b[k])

RECURSIVE SortedEntries(_)
\* sorted(dirp.iterdir())
SortedEntries(es) ==
    IF es = {} THEN <<>>
    ELSE LET first == CHOOSE e \in es : \A o \in es \ {e} : NameLess(e.name, o.name)
         IN  <<first>> \o SortedEntries(es \ {first})

\* files and directories found under the scenario directories: a name,
\* whether it is a regular file, and the lines read_text gives (None when
\* reading raises)
FileA == [name |-> <<"M", "O", "B", "I", "L", "E", "_", "a", ".", "l", "o", "g">>, is_file |-> TRUE, content |-> Some(
        <<<<"[", "2", "0", "2", "5", "-", "1", "2", "-", "2", "9", "T", "1", "8", ":", "2", "9", ":", "2", "5", ".", "4", "2", "8", "1", "6", "5", "]", " ", "S", "C", "E", "N", "E", ":", " ", "r", "e", "s", "u", "l", "t", " ", "-", " ", "c", "u", "p", " ", "w", "i", "t", "h", " ", "c", "o", "n", "f", "i", "d", "e", "n", "c", "e", " ", "0", ".", "8", "7">>,
        <<"o", "b", "j", "e", "t", "o", "_", "v", "e", "r", "d", "a", "d", ":", " ", "\"", "c", "u", "p", "\"">>,
        <<"[", "2", "0", "2", "5", "-", "1", "2", "-", "2", "9", "T", "1", "8", ":", "2", "9", ":", "2", "6", ".", "4", "2", "9", "1", "6", "5", "]", " ", "S", "C", "E", "N", "E", ":", " ", "r", "e", "s", "u", "l", "t", " ", "-", " ", "C", "u", "p">>,
        <<"[", "2", "0", "2", "5", "-", "1", "2", "-", "2", "9", "T", "1", "8", ":", "2", "9", ":", "2", "5", ".", "4", "2", "8", "1", "6", "5", "]", " ", "E", "S", "P", "3", "2", ":", " ", "c", "a", "p", "t", "u", "r", "e">>>>)]
FileB == [name |-> <<"M", "O", "B", "I", "L", "E", "_", "b", ".", "l", "o", "g">>, is_file |-> TRUE, content |-> Some(
        <<<<"[", "2", "0", "2", "5", "-", "1", "2", "-", "2", "9", "T", "1", "8", ":", "2", "9", ":", "2", "4", "]", " ", "S", "C", "E", "N", "E", ":", " ", "-", " ", "s", "t", "a", "r", "t", "i", "n", "g">>,
        <<"S", "C", "E", "N", "E", " ", "f", "i", "n", "i", "s", "h", "e", "d">>>>)]
FileC == [name |-> <<"M", "O", "B", "I", "L", "E", "_", "c", ".", "l", "o", "g">>, is_file |-> TRUE, content |-> None]
FileD == [name |-> <<"M", "O", "B", "I", "L", "E", "_", "d", ".", "l", "o", "g">>, is_file |-> TRUE, content |-> Some(
        <<<<"[", "2", "0", "2", "5", "-", "1", "2", "-", "2", "9", "T", "1", "8", ":", "2", "9", ":", "2", "6", ".", "4", "2", "9", "1", "6", "5", "]", " ", "S", "C", "E", "N", "E", ":", " ", "r", "e", "s", "u", "l", "t", " ", "-", " ", "C", "u", "p">>,
        <<"[", "2", "0", "2", "5", "-", "1", "2", "-", "2", "9", "T", "1", "8", ":", "2", "9", ":", "2", "5", ".", "4", "2", "8", "1", "6", "5", "]", " ", "E", "S", "P", "3", "2", ":", " ", "c", "a", "p", "t", "u", "r", "e">>,
        <<"[", "2", "0", "2", "5", "-", "1", "2", "-", "2", "9", "T", "1", "8", ":", "2", "9", ":", "2", "5", ".", "4", "2", "8", "1", "6", "5", "]", " ", "S", "C", "E", "N", "E", ":", " ", "r", "e", "s", "u", "l", "t", " ", "-", " ", "c", "u", "p", " ", "w", "i", "t", "h", " ", "c", "o", "n", "f", "i", "d", "e", "n", "c", "e", " ", "0", ".", "8", "7">>,
        <<"g", "r", "o", "u", "n", "d", " ", "t", "r", "u", "t", "h", " ", "d", "o", "g">>>>)]
Notes == [name |-> <<"n", "o", "t", "e", "s", ".", "t", "x", "t">>, is_file |-> TRUE, content |-> Some(
        <<<<"S", "C", "E", "N", "E", " ", "f", "i", "n", "i", "s", "h", "e", "d">>>>)]
SubDir == [name |-> <<"M", "O", "B", "I", "L", "E", "_", "o", "l", "d">>, is_file |-> FALSE, content |-> None]

\* a candidate directory: None when it does not exist, else its entries
DirChoices ==
    {None, Some({}), Some({FileA, FileB}), Some({FileC, FileD}),
     Some({FileB, Notes}), Some({FileA, SubDir}), Some({FileA})}

\* candidate directories in the order main visits them:
\* escenario 1, logs/escenario 1, escenario 2, logs/escenario 2, ...
NDirs == 2 * NScenarios
ScenarioOf(k) == ((k - 1) \div 2) + 1

\* the message of the exception read_text raises on entry e
ReadError(e) == IF e.is_file THEN PermissionMessage ELSE IsADirectoryMessage

ErrorRow(escenario, msg) ==
    [timestamp |-> <<>>, modo |-> "MOBILE", tipo_de_evento |-> ParseError,
     escenario |-> escenario, distancia_m |-> "", iluminacion |-> "",
     objeto_verdad |-> <<>>, objeto_predicho |-> <<>>, confianza |-> <<>>,
     t_total_ms |-> <<>>, acierto |-> None, notas |-> ParseErrorNote \o msg]

\* file_rows of the try statement, for the value fv of f and scenario i
FileRows(fv, i) ==
    IF fv = None THEN <<ErrorRow(i, UnboundMessage)>>
    ELSE IF Val(fv).content = None THEN <<ErrorRow(i, ReadError(Val(fv)))>>
    ELSE process_file(Val(Val(fv).content), i, "MOBILE")

\* rows with id_prueba counting on from n
WithIds(rs, n) == [k \in 1..Len(rs) |-> [id_prueba |-> n + k - 1] @@ rs[k]]

\* the value f is left with by "for f in sorted(dirp.iterdir())" over the
\* directory at position k
LoopVariable(fv, k) ==
    LET es == SortedEntries(Val(fs[k]))
    IN  IF es = <<>> THEN fv ELSE Some([dir |-> k] @@ es[Len(es)])

\* a candidate directory that does not exist
SkipDir ==
    /\ pc = "walk" /\ visit < NDirs
    /\ fs[visit + 1] = None
    /\ visit' = visit + 1
    /\ UNCHANGED <<pc, wf, lines, events, truth, rows, fs, f, rows_to_write,
                   id_counter, calls, order, df, target>>

\* one pass of the body of "for dirp in candidate_dirs" for a directory
\* that exists: the loop over its entries, the try statement, the appends
VisitDir ==
    /\ pc = "walk" /\ visit < NDirs
    /\ fs[visit + 1] /= None
    /\ LET fv == LoopVariable(f, visit + 1)
           file_rows == FileRows(fv, ScenarioOf(visit + 1))
       IN  /\ f' = fv
           /\ calls' = IF fv = None THEN calls ELSE Append(calls, Val(fv))
           /\ rows_to_write' = rows_to_write \o WithIds(file_rows, id_counter)
           /\ id_counter' = id_counter + Len(file_rows)
    /\ visit' = visit + 1
    /\ UNCHANGED <<pc, wf, lines, events, truth, rows, fs, order, df, target>>

---------------------------------------------------------------------------
(* main: the global sort and the write                                     *)

PrimaryPath == <<"a", "n", "a", "l", "y", "s", "i", "s", ".", "c", "s", "v">>
FallbackPath == <<"a", "n", "a", "l", "y", "s", "i", "s", "_", "o", "u", "t", ".", "c", "s", "v">>

\* pd.to_datetime(timestamp, errors="coerce") of one cell: None is NaT
ToDatetime(cell) == FromIso(cell)

\* ascending order of the sort keys, NaT last
KeyLess(a, b) ==
    IF a = None THEN FALSE
    ELSE IF b = None THEN TRUE
    ELSE Val(a).s < Val(b).s \/ (Val(a).s = Val(b).s /\ Val(a).us < Val(b).us)

RECURSIVE MergeRightFirst(_, _, _)
\* the merge as it would be in a sort that is not stable: the right run
\* wins a tie
MergeRightFirst(l, r, keys) ==
    IF l = <<>> THEN r
    ELSE IF r = <<>> THEN l
    ELSE IF ~KeyLess(keys[Head(l)], keys[Head(r)])
    THEN <<Head(r)>> \o MergeRightFirst(l, Tail(r), keys)
    ELSE <<Head(l)>> \o MergeRightFirst(Tail(l), r, keys)

RECURSIVE Merge(_, _, _)
\* the merge of two sorted runs of positions: the left run wins a tie
Merge(l, r, keys) ==
    IF l = <<>> THEN r
    ELSE IF r = <<>> THEN l
    ELSE IF KeyLess(keys[Head(r)], keys[Head(l)])
    THEN <<Head(r)>> \o Merge(l, Tail(r), keys)
    ELSE <<Head(l)>> \o Merge(Tail(l), r, keys)

RECURSIVE MergeSort(_, _)
\* sort_values(kind="mergesort", na_position="last") as the order of positions
MergeSort(ix, keys) ==
    IF Len(ix) <= 1 THEN ix
    ELSE LET mid == Len(ix) \div 2
         IN  Merge(MergeSort(SubSeq(ix, 1, mid), keys),
                   MergeSort(SubSeq(ix, mid + 1, Len(ix)), keys), keys)

\* the positions of rows_to_write in the order of the sorted frame
SortOrder(rs) ==
    MergeSort([k \in 1..Len(rs) |-> k], [k \in 1..Len(rs) |-> ToDatetime(rs[k].timestamp)])

\* the frame after reset_index and "id_prueba = index + 1"
Reindexed(rs, ord) == [k \in 1..Len(ord) |-> [rs[ord[k]] EXCEPT !.id_prueba = k]]

\* where to_csv ends up writing: None when the fallback raises too
WriteTarget(primary_ok, fallback_ok) ==
    IF primary_ok THEN Some(PrimaryPath)
    ELSE IF fallback_ok THEN Some(FallbackPath)
    ELSE None

\* everything main does after the walk: the frame, the sort, the new ids
\* and the write, which either location may refuse
Finish ==
    /\ pc = "walk" /\ visit = NDirs
    /\ order' = SortOrder(rows_to_write)
    /\ df' = Reindexed(rows_to_write, order')
    /\ \E primary_ok \in BOOLEAN, fallback_ok \in BOOLEAN :
          /\ target' = WriteTarget(primary_ok, fallback_ok)
          /\ pc' = IF target' = None THEN "crashed" ELSE "written"
    /\ UNCHANGED <<wf, lines, events, truth, rows, fs, visit, f, rows_to_write,
                   id_counter, calls>>

\* a run of main: the first MaxDirs candidate directories may exist
InitMain ==
    /\ fs \in {[k \in 1..NDirs |-> IF k <= MaxDirs THEN d[k] ELSE None] :
                  d \in [1..MaxDirs -> DirChoices]}
    /\ pc = "walk" /\ visit = 0 /\ f = None /\ rows_to_write = <<>>
    /\ id_counter = 1 /\ calls = <<>> /\ order = <<>> /\ df = <<>> /\ target = None
    /\ wf = None /\ lines = <<>> /\ events = <<>> /\ truth = None /\ rows = <<>>

NextMain == SkipDir \/ VisitDir \/ Finish

SpecMain == InitMain /\ [][NextMain]_vars

\* the rows of the dataset: process_file on a file, and a run of main
InitRows == InitFile \/ InitMain

NextRows == NextFile \/ NextMain

SpecRows == InitRows /\ [][NextRows]_vars

\* the four runs side by side
Init == InitLine \/ InitDur \/ InitFile \/ InitMain

Next ==
    \/ Parse \/ FindTruth \/ Durations \/ DurationsAgain \/ BuildRows
    \/ SkipDir \/ VisitDir \/ Finish

Spec == Init /\ [][Next]_vars

---------------------------------------------------------------------------
(* Properties                                                              *)

Finished == pc \in {"written", "crashed"}

\* a regular file whose name starts with the mode prefix
Processable(e) == e.is_file /\ StartsWith(e.name, ModePrefix)

ProcessableIn(k) ==
    IF fs[k] = None THEN {} ELSE {e \in Val(fs[k]) : Processable(e)}

RECURSIVE RowsOfEntries(_, _)
\* the rows the entries es of scenario i are due, one file after the other:
\* what process_file returns, or one parse_error row when it raises
RowsOfEntries(es, i) ==
    IF es = <<>> THEN <<>>
    ELSE FileRows(Some(Head(es)), i) \o RowsOfEntries(Tail(es), i)

RECURSIVE DueRows(_)
\* the rows due from candidate directories k..NDirs
DueRows(k) ==
    IF k > NDirs THEN <<>>
    ELSE RowsOfEntries(SortedEntries(ProcessableIn(k)), ScenarioOf(k)) \o DueRows(k + 1)

CallsOf(k, e) == {c \in 1..Len(calls) : calls[c].dir = k /\ calls[c].name = e.name}

\* C1: when main has finished, process_file has been invoked exactly once on
\* every regular file with the MOBILE prefix of every scenario directory, and
\* the number of accumulated rows is the sum of the rows of those files.
C1_EveryPrefixedFileProcessed ==
    Finished =>
        /\ \A k \in 1..NDirs : \A e \in ProcessableIn(k) : Cardinality(CallsOf(k, e)) = 1
        /\ Len(rows_to_write) = Len(DueRows(1))

\* C2: process_file is only ever invoked on regular files whose name starts
\* with MOBILE, and as long as no directory visited so far holds such a file
\* no row has been accumulated.
C2_OnlyPrefixedFilesProcessed ==
    /\ \A c \in 1..Len(calls) : Processable(calls[c])
    /\ (\A k \in 1..visit : ProcessableIn(k) = {}) => rows_to_write = <<>>

\* the sort key of row k of the written frame
KeyOfRow(k) == ToDatetime(df[k].timestamp)

SameKey(a, b) ==
    \/ a = None /\ b = None
    \/ a /= None /\ b /= None /\ Val(a).s = Val(b).s /\ Val(a).us = Val(b).us

InOrder(a, b) ==
    /\ a = None => b = None
    /\ (a /= None /\ b /= None) =>
          Val(a).s < Val(b).s \/ (Val(a).s = Val(b).s /\ Val(a).us <= Val(b).us)

ExactMillis(a, b) ==
    LET ds == a.s - b.s
        du == a.us - b.us
        whole == ds * 1000 + (du \div 1000)
    IN  IF whole < 0 /\ du % 1000 /= 0 THEN whole + 1 ELSE whole

Annotated == pc \in {"rows", "rerun"} /\ lines = <<>>

\* C4: after compute_inference_duration the first event has duration 0 when
\* it has a timestamp and none otherwise; every later event has the signed
\* difference to its predecessor in whole milliseconds when both have a
\* timestamp (of the same kind), and no duration fields when either lacks one.
C4_DurationIsTimestampDelta ==
    Annotated =>
        \A k \in 1..Len(events) :
            LET cur == events[k].ts
                prev == IF k = 1 THEN cur ELSE events[k - 1].ts
            IN  /\ (cur = None \/ prev = None) =>
                      events[k].duration_ms = None /\ events[k].duration_hms = None
                /\ (cur /= None /\ prev /= None /\ Val(cur).tz = Val(prev).tz) =>
                      events[k].duration_ms = Some(ExactMillis(Val(cur), Val(prev)))

\* the parts of an [-]H..H:MM:SS.mmm string, None when it is not of that shape
HmsParts(h) ==
    LET neg == h /= <<>> /\ h[1] = "-"
        body == IF neg THEN Tail(h) ELSE h
        n == Len(body)
    IN  IF /\ n >= 12
           /\ body[n - 3] = "." /\ body[n - 6] = ":" /\ body[n - 9] = ":"
           /\ AllDigits(SubSeq(body, 1, n - 10))
           /\ AllDigits(SubSeq(body, n - 8, n - 7))
           /\ AllDigits(SubSeq(body, n - 5, n - 4))
           /\ AllDigits(SubSeq(body, n - 2, n))
        THEN Some([neg |-> neg,
                   hours |-> NumberOf(SubSeq(body, 1, n - 10)),
                   mins |-> NumberOf(SubSeq(body, n - 8, n - 7)),
                   secs |-> NumberOf(SubSeq(body, n - 5, n - 4)),
                   millis |-> NumberOf(SubSeq(body, n - 2, n))])
        ELSE None

\* the signed number of milliseconds such a string denotes
HmsMillis(p) ==
    (IF p.neg THEN -1 ELSE 1) * (((p.hours * 60 + p.mins) * 60 + p.secs) * 1000 + p.millis)

\* C10: every duration string has the shape HH:MM:SS.mmm, hours of at least
\* two digits, minutes and seconds below 60, and denotes the same signed
\* number of milliseconds as duration_ms, negative ones included.
C10_DurationStringDenotesMillis ==
    Annotated =>
        \A k \in 1..Len(events) :
            events[k].duration_ms /= None =>
                /\ events[k].duration_hms /= None
                /\ HmsParts(Val(events[k].duration_hms)) /= None
                /\ LET p == Val(HmsParts(Val(events[k].duration_hms)))
                   IN  /\ p.mins < 60 /\ p.secs < 60
                       /\ HmsMillis(p) = Val(events[k].duration_ms)

\* C8: a line built as [<ts>] <comp>: <evt> - <details> parses to one event
\* whose component, event and details are the parts it was built from,
\* surrounding whitespace removed.
C8_WellFormedLineRecovered ==
    (pc = "find_truth" /\ wf /= None) =>
        /\ Len(events) = 1
        /\ events[1].component = Some(Strip(wf.comp))
        /\ events[1].event = Some(Strip(wf.evt))
        /\ events[1].details = Strip(wf.det)

AciertoAsSpecified(r) ==
    /\ r.acierto = Some(1) <=>
          /\ r.objeto_verdad /= <<>> /\ r.objeto_predicho /= <<>>
          /\ Lower(r.objeto_verdad) = Lower(r.objeto_predicho)
    /\ r.objeto_verdad = <<>> => r.acierto = None
    /\ r.acierto \in {Some(1), Some(0), None}

\* C5: in every row process_file returns and in every row of the written
\* frame, acierto is 1 exactly when objeto_verdad and objeto_predicho are
\* both non-empty and equal ignoring case, is empty when objeto_verdad is
\* empty, and is never anything but 1, 0 or empty.
C5_AciertoMatchesLabels ==
    /\ pc = "done" => \A k \in 1..Len(rows) : AciertoAsSpecified(rows[k])
    /\ pc = "written" => \A k \in 1..Len(df) : AciertoAsSpecified(df[k])

\* C5 witness: a written frame with a hit whose labels differ in case, a
\* miss, a no_result row and a parse_error row.
C5_Witness ==
    /\ pc = "written"
    /\ \E k \in 1..Len(df) :
          df[k].acierto = Some(1) /\ df[k].objeto_verdad /= df[k].objeto_predicho
    /\ \E k \in 1..Len(df) : df[k].acierto = Some(0)
    /\ \E k \in 1..Len(df) : df[k].tipo_de_evento = NoResult /\ df[k].acierto = None
    /\ \E k \in 1..Len(df) : df[k].tipo_de_evento = ParseError /\ df[k].acierto = None

\* positions of the events that have a non-empty event name
Named == {k \in 1..Len(events) : events[k].event /= None /\ Val(events[k].event) /= <<>>}

WithTs == {k \in 1..Len(events) : events[k].ts /= None}
WithDuration == {k \in 1..Len(events) : events[k].duration_hms /= None}
Largest(S) == CHOOSE k \in S : \A j \in S : j <= k

NamesTruth(ln) ==
    \E w \in {GroundTruthA, GroundTruthB, GroundTruthC} : Contains(Lower(ln), w)

TruthLines == {k \in 1..Len(lines) : NamesTruth(lines[k])}
Smallest(S) == CHOOSE k \in S : \A j \in S : k <= j

\* C9: the ground truth is the last token, quotes stripped, of the first
\* raw line that names it, absent when no line does, and every row of the
\* file carries it in objeto_verdad.
C9_GroundTruthFileGlobal ==
    pc = "done" =>
        /\ truth = IF TruthLines = {} THEN None
                   ELSE Some(StripOf(LastToken(lines[Smallest(TruthLines)]), {"\""}))
        /\ \A k \in 1..Len(rows) :
              rows[k].objeto_verdad = IF truth = None THEN <<>> ELSE Val(truth)

\* C9 witness: a file with two lines naming different ground truths, the
\* first of them after a line that yields a row.
C9_Witness ==
    /\ pc = "done" /\ Len(rows) >= 2
    /\ \E a \in TruthLines : \E b \in TruthLines :
          a < b /\ LastToken(lines[a]) /= LastToken(lines[b])
    /\ Smallest(TruthLines) > 1
    /\ LINE_RE(Strip(lines[1])) /= None
    /\ rows[1].objeto_verdad /= <<>>

\* C7: main ends with a written dataset in which every regular MOBILE file
\* has its own rows, one parse_error row for a file whose processing raised
\* and the rows of process_file for every other, and nothing else.
C7_FailuresIsolatedPerFile ==
    Finished =>
        /\ pc = "written"
        /\ rows_to_write = WithIds(DueRows(1), 1)

===========================================================================
